---- MODULE Spec2Model ----
(***************************************************************************)
(* rename-for-linux-limit: the filename shortening core of src/lib.rs.     *)
(*                                                                         *)
(* A string (Rust str / String) is a sequence of characters; a character   *)
(* is a TLA+ string naming one code point.  ASCII characters name          *)
(* themselves ("a", ".", "1"); "U4E00" is the 3-byte CJK character of the  *)
(* tests, "U00E9" the precomposed e-acute (2 bytes), "U0301" the           *)
(* combining acute accent (2 bytes).  Byte offsets of the source are       *)
(* character positions here; every slice of the source is taken at a       *)
(* character boundary, so the two agree.                                   *)
(***************************************************************************)
EXTENDS Integers, Sequences, FiniteSets, TLC

VARIABLES
    path,               \* argument `path`: [text, dir, file_name]
    dst_dir_arg,        \* argument `dst_dir` (Option)
    dst_dir,            \* local `dst_dir`: the argument, then the resolved directory
    to_same_dir,        \* local `to_same_dir`
    config,             \* the loaded Config: [ignored_tags, conversions]
    ignored_tags,       \* local `ignored_tags` (normalized)
    tag_conversion_map, \* local `tag_conversion_map` (normalized)
    existing,           \* names the existence check reports as existing in dst_dir
    existing_dirs,      \* the filesystem: the directories that exist
    pc,                 \* position in new_filename_impl / the candidate harness
    filename,           \* local `filename`
    n_retries,          \* local `n_retries`
    cand,               \* the last evaluation of new_candidate_filename
    candidates,         \* candidate names produced so far, counter 0 first
    probes,             \* names handed to check_file_existence, in call order
    result,             \* the value returned: [kind, name, error, path]
    split_slug,         \* argument `slug` of a call of split_into_components
    split_out           \* the pair that call returned

vars == <<path, dst_dir_arg, dst_dir, to_same_dir, config, ignored_tags, tag_conversion_map,
          existing, existing_dirs, pc, filename, n_retries, cand, candidates,
          probes, result, split_slug, split_out>>

----------------------------------------------------------------------------
(* Bounds of the model. *)

\* split_into_components is applied to the slugs of 1..MaxSlugLen characters
MaxSlugLen == 5
\* the driver's retry loop is followed up to this counter
MaxRetries == 2
\* the candidate function is applied to the counters 0..MaxCounter
MaxCounter == 11

----------------------------------------------------------------------------
(* Program constants. *)

N_FILENAME_BYTES == 255
N_MAX_EXTENSION_BYTES == 5
DELIMITERS == {"."}

----------------------------------------------------------------------------
(* Option values and strings. *)

None == [some |-> FALSE, val |-> <<>>]
Some(x) == [some |-> TRUE, val |-> x]

\* char::len_utf8
len_utf8(c) ==
    CASE c = "U4E00" -> 3
      [] c = "U00E9" -> 2
      [] c = "U0301" -> 2
      [] OTHER -> 1

Min(S) == CHOOSE i \in S : \A j \in S : i <= j

\* the UTF-8 byte length of the characters lo..hi of a string, summed by
\* halves to keep the evaluation shallow
RECURSIVE BytesBetween(_, _, _)
BytesBetween(s, lo, hi) ==
    IF lo > hi THEN 0
    ELSE IF lo = hi THEN len_utf8(s[lo])
    ELSE LET mid == (lo + hi) \div 2
         IN  BytesBetween(s, lo, mid) + BytesBetween(s, mid + 1, hi)

BytesUpTo(s, k) == BytesBetween(s, 1, k)

\* str::len / as_bytes().len(): the UTF-8 byte length of a string
ByteLen(s) == BytesUpTo(s, Len(s))

\* canonical decomposition of one character
nfd_char(c) == IF c = "U00E9" THEN <<"e", "U0301">> ELSE <<c>>

RECURSIVE NfdUpTo(_, _)
NfdUpTo(s, k) == IF k = 0 THEN <<>> ELSE NfdUpTo(s, k - 1) \o nfd_char(s[k])

\* normalize_str: NFD of the whole string
normalize_str(s) == NfdUpTo(s, Len(s))

Digit(d) == <<"0", "1", "2", "3", "4", "5", "6", "7", "8", "9">>[d + 1]

\* format!("{}", n) of an unsigned integer
RECURSIVE FormatUsize(_)
FormatUsize(n) == IF n < 10 THEN <<Digit(n)>> ELSE FormatUsize(n \div 10) \o <<Digit(n % 10)>>

\* the loop stopping at a character that fits the budget exactly
TakeCount_StopsEarly(s, k, budget) ==
    LET breaks == {j \in k..Len(s) :
                      budget - BytesBetween(s, k, j - 1) <= len_utf8(s[j])}
    IN  IF breaks = {} THEN Len(s) ELSE Min(breaks) - 1

\* the loop `for char in s.chars() { if budget < char.len_utf8() { break } ... }`
\* started at character k: the loop breaks at the first character that is
\* longer than what the characters before it have left of the budget; the
\* value is the number of leading characters of s taken
TakeCount(s, k, budget) ==
    LET breaks == {j \in k..Len(s) :
                      budget - BytesBetween(s, k, j - 1) < len_utf8(s[j])}
    IN  IF breaks = {} THEN Len(s) ELSE Min(breaks) - 1

TakeChars(s, budget) == SubSeq(s, 1, TakeCount(s, 1, budget))

----------------------------------------------------------------------------
(* new_candidate_filename, lines 96-145: extension and budget. *)

Max(S) == CHOOSE i \in S : \A j \in S : j <= i

\* filename.rsplitn(2, '.'): first item the text after the last '.', second
\* item (if a '.' exists) the text before it
RSplitN2(s) ==
    LET dots == {i \in 1..Len(s) : s[i] = "."}
    IN  IF dots = {}
        THEN [ext |-> s, slug |-> None]
        ELSE [ext |-> SubSeq(s, Max(dots) + 1, Len(s)),
              slug |-> Some(SubSeq(s, 1, Max(dots) - 1))]

\* lines 101-111
SplitDot(s) ==
    LET split == RSplitN2(s)
    IN  IF split.slug.some
        THEN IF split.slug.val = <<>>
             THEN [ext |-> None, slug |-> <<".">> \o split.ext]
             ELSE [ext |-> Some(split.ext), slug |-> split.slug.val]
        ELSE [ext |-> None, slug |-> split.ext]

\* lines 113-121
CapExtension(es) ==
    IF es.ext.some
    THEN IF ByteLen(es.ext.val) > N_MAX_EXTENSION_BYTES
         THEN [ext |-> None, slug |-> es.slug \o <<".">> \o es.ext.val]
         ELSE es
    ELSE [ext |-> None, slug |-> es.slug]

\* the counter inserted for every n, 0 included
FormatExt_AlwaysCounter(ext, n) ==
    IF ext.some
    THEN Some(FormatUsize(n) \o <<".">> \o ext.val)
    ELSE Some(FormatUsize(n))

\* lines 123-135
FormatExt(ext, n) ==
    IF ext.some
    THEN IF n = 0 THEN Some(ext.val) ELSE Some(FormatUsize(n) \o <<".">> \o ext.val)
    ELSE IF n = 0 THEN None ELSE Some(FormatUsize(n))

\* the reserve without the byte of the separating delimiter
ExtLen_NoDelimiter(ext) == ByteLen(ext)

\* line 138
ExtLen(ext) == ByteLen(ext) + 1

\* lines 137-145; `panic` is a failed assert! or expect
Budget(fname, slug, ext) ==
    IF ext.some
    THEN LET ext_len == ExtLen(ext.val)
         IN  [panic |-> ~(ext_len <= 20 + N_MAX_EXTENSION_BYTES + 2)
                        \/ ~(ext_len <= N_FILENAME_BYTES),
              n_remaining_slug_bytes |-> N_FILENAME_BYTES - ext_len,
              slug |-> slug,
              ext |-> <<".">> \o ext.val]
    ELSE [panic |-> FALSE,
          n_remaining_slug_bytes |-> N_FILENAME_BYTES,
          slug |-> fname,
          ext |-> <<>>]

----------------------------------------------------------------------------
(* split_into_components, lines 245-285. *)

\* SlugComponent::n_bytes
n_bytes(c) == ByteLen(c.tag) + len_utf8(c.delimiter)

\* the scan without the test `0 < i`: a delimiter at offset 0 ends the
\* leading component
FirstLoop_NoOffsetTest(slug, i) ==
    LET hits == {j \in i..Len(slug) : slug[j] \in DELIMITERS}
    IN  IF hits = {}
        THEN [start |-> Len(slug) + 1, first_component |-> slug, next |-> Len(slug) + 1]
        ELSE [start |-> Min(hits),
              first_component |-> SubSeq(slug, 1, Min(hits) - 1),
              next |-> Min(hits) + 1]

\* lines 253-263: the scan from character i to the first delimiter that is
\* not the first character of the slug, where the loop breaks; `start` =
\* Len(slug) + 1 stands for slug.len()
FirstLoop(slug, i) ==
    LET hits == {j \in i..Len(slug) : 1 < j /\ slug[j] \in DELIMITERS}
    IN  IF hits = {}
        THEN [start |-> Len(slug) + 1, first_component |-> slug, next |-> Len(slug) + 1]
        ELSE [start |-> Min(hits),
              first_component |-> SubSeq(slug, 1, Min(hits) - 1),
              next |-> Min(hits) + 1]

\* lines 265-271: the rest of the scan, from character i; the iterations
\* that act are those at a delimiter, each pushing the component that ends
\* there
RECURSIVE SecondLoop(_, _, _, _)
SecondLoop(slug, i, start, components) ==
    LET hits == {j \in i..Len(slug) : slug[j] \in DELIMITERS}
    IN  IF hits = {}
        THEN [start |-> start, components |-> components]
        ELSE SecondLoop(slug, Min(hits) + 1, Min(hits),
                        Append(components,
                               [delimiter |-> slug[Min(hits)],
                                tag |-> SubSeq(slug, start + 1, Min(hits) - 1)]))

\* lines 278-282: the conversion lookup of one tag
ConvertTag(tag, map) ==
    IF normalize_str(tag) \in DOMAIN map THEN map[normalize_str(tag)] ELSE tag

split_into_components(slug, map) ==
    LET f == FirstLoop(slug, 1)
        s == SecondLoop(slug, f.next, f.start, <<>>)
        raw == IF s.start < Len(slug) + 1
               THEN Append(s.components,
                           [delimiter |-> slug[s.start],
                            tag |-> SubSeq(slug, s.start + 1, Len(slug))])
               ELSE s.components
    IN  [panic |-> slug = <<>>,
         first_component |-> f.first_component,
         components |-> [k \in 1..Len(raw) |->
                            [delimiter |-> raw[k].delimiter,
                             tag |-> ConvertTag(raw[k].tag, map)]]]

----------------------------------------------------------------------------
(* new_candidate_filename, lines 149-223: the byte budget allocator. *)

\* no sort: the components taken in their original order
SortsBefore_ByIndex(components, i, j) == i <= j

\* the comparison of len_indecies.sort_by (line 171); the sort is stable, so
\* entries of equal len keep their index order
SortsBefore(components, i, j) ==
    \/ n_bytes(components[i]) < n_bytes(components[j])
    \/ n_bytes(components[i]) = n_bytes(components[j]) /\ i <= j

RECURSIVE SortByLen(_, _)
SortByLen(components, todo) ==
    IF todo = {} THEN <<>>
    ELSE LET i == CHOOSE i \in todo : \A j \in todo : SortsBefore(components, i, j)
         IN  <<i>> \o SortByLen(components, todo \ {i})

\* lines 165-171: the component indices in selection order
len_indecies(components) == SortByLen(components, 1..Len(components))

\* the ignored-tag test left out
IsIgnored_Never(normalized_tag, ignored) == FALSE

\* line 180
IsIgnored(normalized_tag, ignored) == normalized_tag \in ignored

\* the duplicate test left out
IsSeen_Never(normalized_tag, seen_tags) == FALSE

\* line 183
IsSeen(normalized_tag, seen_tags) == normalized_tag \in seen_tags

\* lines 175-211: the loop body at position st.k of the selection order and the
\* iterations after it; `stopped` records a break
RECURSIVE AllocLoop(_, _, _, _)
AllocLoop(components, ignored, order, st) ==
    IF st.k > Len(order) THEN st
    ELSE LET i == order[st.k]
             component == components[i]
             len == n_bytes(component)
             delimiter == component.delimiter
             raw_tag == component.tag
             normalized_tag == normalize_str(raw_tag)
             next == [st EXCEPT !.k = @ + 1]
         IN  IF IsIgnored(normalized_tag, ignored)
             THEN AllocLoop(components, ignored, order, next)
             ELSE IF IsSeen(normalized_tag, st.seen_tags)
             THEN AllocLoop(components, ignored, order, next)
             ELSE IF st.n_remaining_slug_bytes = 0
             THEN [st EXCEPT !.stopped = TRUE]
             ELSE IF st.n_remaining_slug_bytes < len
             THEN IF st.n_remaining_slug_bytes < len_utf8(delimiter)
                  THEN [st EXCEPT !.stopped = TRUE]
                  ELSE LET b == st.n_remaining_slug_bytes - len_utf8(delimiter)
                           taken == TakeChars(raw_tag, b)
                       IN  [st EXCEPT !.n_remaining_slug_bytes = b - ByteLen(taken),
                                      !.converted_components[i] = <<delimiter>> \o taken,
                                      !.partial = @ \cup {i},
                                      !.stopped = TRUE]
             ELSE AllocLoop(components, ignored, order,
                            [next EXCEPT !.n_remaining_slug_bytes = @ - len,
                                         !.converted_components[i] = <<delimiter>> \o raw_tag,
                                         !.seen_tags = @ \cup {normalized_tag},
                                         !.full = @ \cup {i}])

\* the components pushed last to first
RECURSIVE Concat_Reversed(_, _)
Concat_Reversed(seqs, k) ==
    IF k = 0 THEN <<>> ELSE seqs[k] \o Concat_Reversed(seqs, k - 1)

\* lines 213-216: push the components in their original order
RECURSIVE Concat(_, _)
Concat(seqs, k) == IF k = 0 THEN <<>> ELSE Concat(seqs, k - 1) \o seqs[k]

\* lines 151-217
Allocate(first_component, components, ignored, budget) ==
    IF ByteLen(first_component) > budget
    THEN LET taken == TakeChars(first_component, budget)
         IN  [truncated_first |-> TRUE,
              new_slug |-> taken,
              n_remaining_slug_bytes |-> budget - ByteLen(taken),
              order |-> <<>>,
              converted_components |-> [k \in 1..Len(components) |-> <<>>],
              seen_tags |-> {}, partial |-> {}, full |-> {},
              k |-> 1, stopped |-> FALSE]
    ELSE LET order == len_indecies(components)
             st == AllocLoop(components, ignored, order,
                             [k |-> 1,
                              n_remaining_slug_bytes |-> budget - ByteLen(first_component),
                              seen_tags |-> {},
                              converted_components |-> [k \in 1..Len(components) |-> <<>>],
                              partial |-> {}, full |-> {}, stopped |-> FALSE])
         IN  [truncated_first |-> FALSE,
              new_slug |-> first_component
                           \o Concat(st.converted_components, Len(components)),
              n_remaining_slug_bytes |-> st.n_remaining_slug_bytes,
              order |-> order,
              converted_components |-> st.converted_components,
              seen_tags |-> st.seen_tags, partial |-> st.partial, full |-> st.full,
              k |-> st.k, stopped |-> st.stopped]

\* new_candidate_filename, lines 92-223.  The record keeps the locals of the
\* evaluation; `name` is the returned String, `panic` a failed assert!
NewCandidateFilename(fname, ignored, map, n) ==
    LET es == CapExtension(SplitDot(fname))
        b == Budget(fname, es.slug, FormatExt(es.ext, n))
        sp == split_into_components(b.slug, map)
        al == Allocate(sp.first_component, sp.components, ignored,
                       b.n_remaining_slug_bytes)
        new_filename == al.new_slug \o b.ext
    IN  [applied |-> TRUE,
         n |-> n,
         true_ext |-> es.ext,
         ext |-> b.ext,
         slug |-> b.slug,
         budget |-> b.n_remaining_slug_bytes,
         first_component |-> sp.first_component,
         remaining_components |-> sp.components,
         truncated_first |-> al.truncated_first,
         order |-> al.order,
         converted_components |-> al.converted_components,
         partial |-> al.partial,
         full |-> al.full,
         stopped |-> al.stopped,
         n_remaining_slug_bytes |-> al.n_remaining_slug_bytes,
         new_slug |-> al.new_slug,
         name |-> new_filename,
         panic |-> \/ fname = <<>>
                   \/ b.panic
                   \/ sp.panic
                   \/ ~(ByteLen(new_filename) <= N_FILENAME_BYTES)]

----------------------------------------------------------------------------
(* Inputs: file names, paths, configurations, destinations. *)

Rep(c, k) == [i \in 1..k |-> c]

\* a run of k copies of the 3-byte character of the tests
Cjk(k) == Rep("U4E00", k)

FileNames ==
    { <<"a", ".", "b", ".", "c", ".", "t", "x", "t">>,
      <<"a", ".", "b", ".", "c", ".", ".", "d">>,
      <<"a", ".", "b", ".", "b", ".", "t", "x", "t">>,
      <<"a", ".", "x", ".", "b", ".", "t", "x", "t">>,
      <<"a", ".", "U00E9", ".", "e", "U0301", ".", "t", "x", "t">>,
      <<"a", ".", "b", "e", "e", ".", "b", ".", "t", "x", "t">>,
      <<"a", ".", "b", ".", "t", "o", "o", "l", "o", "n", "g">>,
      <<".", "b", "a", "s", "h", "r", "c">>,
      <<".", ".", ".">>,
      <<"a", ".">>,
      \* exactly N_FILENAME_BYTES long
      Cjk(N_FILENAME_BYTES \div 3),
      \* longer than N_FILENAME_BYTES
      Cjk(N_FILENAME_BYTES \div 3 + 1),
      <<".">> \o Cjk(N_FILENAME_BYTES \div 3),
      Cjk(N_FILENAME_BYTES \div 3 + 1) \o <<".", "t", "x", "t">>,
      Cjk(N_FILENAME_BYTES \div 3 + 1) \o <<".", "b", ".", "t", "x", "t">>,
      \* leading component of 240 bytes, components of 16, 2 and 9 bytes
      Cjk(N_FILENAME_BYTES \div 3 - 5)
          \o <<".">> \o Rep("n", 15) \o <<".", "y", ".">> \o Rep("m", 8)
          \o <<".", "t", "x", "t">>,
      Cjk(N_FILENAME_BYTES \div 3 - 1) \o <<"a", ".", "1", "b", "b", "b", "b", "b", "b">>,
      Cjk(N_FILENAME_BYTES \div 3 - 1) \o <<".", "a", "b", "c", "d", "e", "f", "g">>,
      Cjk(N_FILENAME_BYTES \div 3 - 5)
          \o <<".">> \o Rep("l", 12) \o <<".", "v", "2", ".", "v", "2", ".", "x">>
          \o <<".", "t", "x", "t">>,
      Cjk(N_FILENAME_BYTES \div 3 - 5)
          \o <<".", "e", "U0301", "y", ".", "U00E9", "y", ".", "b", "e", "e", ".", "b">>
          \o <<".">> \o Rep("l", 12) }

Dirs == {"d0", "d1"}

\* a Path: `dir` is path.parent(), `file_name` is path.file_name(); ".", "/"
\* and "" have no final segment
Paths ==
    { [text |-> n, dir |-> "d0", file_name |-> Some(n)] : n \in FileNames }
    \cup { [text |-> t, dir |-> "d0", file_name |-> None] : t \in {<<".">>, <<"/">>, <<>>} }

\* Config values: ignored_tags and conversions (pairs key, value) as loaded
Configs ==
    { [ignored_tags |-> {}, conversions |-> {}],
      [ignored_tags |-> {<<"x">>, <<"U00E9">>, <<"a", "b">>}, conversions |-> {}],
      [ignored_tags |-> {}, conversions |-> {<<(<<"b", "e", "e">>), (<<"b">>)>>}],
      [ignored_tags |-> {<<"b">>},
       conversions |-> {<<(<<"U00E9", "y">>), (<<"v", "2">>)>>}] }

\* line 43
NormalizeTags(tags) == {normalize_str(t) : t \in tags}

\* lines 44-46
NormalizeMap(conversions) ==
    [k \in {normalize_str(c[1]) : c \in conversions} |->
        normalize_str((CHOOSE c \in conversions : normalize_str(c[1]) = k)[2])]

NoCand == [applied |-> FALSE]
NoSplit == [applied |-> FALSE]
NoResult == [kind |-> "none", name |-> <<>>, error |-> "", path |-> <<>>]
Ok(name) == [kind |-> "Ok", name |-> name, error |-> "", path |-> <<>>]
Err(e, p) == [kind |-> "Err", name |-> <<>>, error |-> e, path |-> p]

\* the names new_filename_impl can probe for a file name within the bound
ProbeNames(file_name, cfg) ==
    IF file_name.some
    THEN {file_name.val}
         \cup { NewCandidateFilename(file_name.val, NormalizeTags(cfg.ignored_tags),
                                     NormalizeMap(cfg.conversions), n).name
                : n \in 0..(MaxRetries - 1) }
    ELSE {}

----------------------------------------------------------------------------
(* new_filename_impl, lines 36-90. *)

Init ==
    /\ path \in Paths
    /\ config \in Configs
    /\ dst_dir_arg \in {None} \cup {Some(d) : d \in Dirs}
    /\ dst_dir = dst_dir_arg
    /\ existing_dirs \in {{"d0"}, Dirs}
    /\ existing \in SUBSET ProbeNames(path.file_name, config)
    /\ to_same_dir = FALSE
    /\ ignored_tags = {}
    /\ tag_conversion_map = <<>>
    /\ pc = "start"
    /\ filename = <<>>
    /\ n_retries = 0
    /\ cand = NoCand
    /\ candidates = <<>>
    /\ probes = <<>>
    /\ result = NoResult
    /\ split_slug = <<>>
    /\ split_out = NoSplit

\* check_file_existence(&dst_dir.join(name))
check_file_existence(name) == name \in existing

\* no early return: the text of the path taken as the name
FileNameOf_WholePath(p) ==
    IF p.file_name.some
    THEN [found |-> TRUE, filename |-> p.file_name.val]
    ELSE [found |-> TRUE, filename |-> p.text]

\* lines 48-55: the final segment of the path, or the error
FileNameOf(p) ==
    IF p.file_name.some
    THEN [found |-> TRUE, filename |-> p.file_name.val]
    ELSE [found |-> FALSE, filename |-> <<>>]

\* lines 37-61: the configuration, the file name and the destination
Start ==
    /\ pc = "start"
    /\ UNCHANGED <<split_slug, split_out>>
    /\ ignored_tags' = NormalizeTags(config.ignored_tags)
    /\ tag_conversion_map' = NormalizeMap(config.conversions)
    /\ IF FileNameOf(path).found
       THEN /\ filename' = FileNameOf(path).filename
            /\ IF dst_dir.some
               THEN dst_dir' = dst_dir /\ to_same_dir' = FALSE
               ELSE dst_dir' = Some(path.dir) /\ to_same_dir' = TRUE
            /\ pc' = "fast"
            /\ result' = result
       ELSE /\ result' = Err("FilenameNotFound", path.text)
            /\ pc' = "done"
            /\ UNCHANGED <<filename, dst_dir, to_same_dir>>
    /\ UNCHANGED <<path, dst_dir_arg, config, existing, existing_dirs, n_retries,
                   cand, candidates, probes>>

\* the limit taken as exclusive
FitsLimit_Strict(name) == ByteLen(name) < N_FILENAME_BYTES

\* line 63
FitsLimit(name) == ByteLen(name) <= N_FILENAME_BYTES

\* lines 63-76: a name that is short enough
FastPath ==
    /\ pc = "fast"
    /\ UNCHANGED <<split_slug, split_out>>
    /\ IF FitsLimit(filename)
       THEN IF to_same_dir
            THEN /\ result' = Ok(filename)
                 /\ pc' = "done"
                 /\ probes' = probes
            ELSE /\ probes' = Append(probes, filename)
                 /\ IF ~check_file_existence(filename)
                    THEN result' = Ok(filename) /\ pc' = "done"
                    ELSE result' = result /\ pc' = "loop"
       ELSE /\ pc' = "loop"
            /\ UNCHANGED <<result, probes>>
    /\ n_retries' = 0
    /\ UNCHANGED <<path, dst_dir_arg, dst_dir, to_same_dir, config, ignored_tags,
                   tag_conversion_map, existing, existing_dirs, filename, cand,
                   candidates>>

\* fs::create_dir_all(&dst_dir): nothing to do for an existing directory; a
\* missing one is created, or the call fails
create_dir_all(dir, dirs) ==
    IF dir \in dirs
    THEN {[ok |-> TRUE, dirs |-> dirs]}
    ELSE {[ok |-> TRUE, dirs |-> dirs \cup {dir}], [ok |-> FALSE, dirs |-> dirs]}

\* lines 78-82: the candidate of this iteration, then the destination directory
Generate ==
    /\ pc = "loop"
    /\ UNCHANGED <<split_slug, split_out>>
    /\ LET c == NewCandidateFilename(filename, ignored_tags, tag_conversion_map,
                                     n_retries)
       IN  /\ cand' = c
           /\ candidates' = Append(candidates, c.name)
           /\ IF c.panic
              THEN /\ pc' = "panic"
                   /\ UNCHANGED <<existing_dirs, result>>
              ELSE \E r \in create_dir_all(dst_dir.val, existing_dirs) :
                      /\ existing_dirs' = r.dirs
                      /\ IF r.ok
                         THEN pc' = "check" /\ result' = result
                         ELSE pc' = "done" /\ result' = Err("Io", <<dst_dir.val>>)
    /\ UNCHANGED <<path, dst_dir_arg, dst_dir, to_same_dir, config, ignored_tags,
                   tag_conversion_map, existing, filename, n_retries, probes>>

\* a counter that skips a value
NextRetry_Skip(n) == n + 2

\* line 88
NextRetry(n) == n + 1

\* lines 84-88: the existence check of the candidate
Check ==
    /\ pc = "check"
    /\ UNCHANGED <<split_slug, split_out>>
    /\ probes' = Append(probes, cand.name)
    /\ IF ~check_file_existence(cand.name)
       THEN /\ result' = Ok(cand.name)
            /\ pc' = "done"
            /\ n_retries' = n_retries
       ELSE /\ n_retries < MaxRetries
            /\ n_retries' = NextRetry(n_retries)
            /\ pc' = "loop"
            /\ result' = result
    /\ UNCHANGED <<path, dst_dir_arg, dst_dir, to_same_dir, config, ignored_tags,
                   tag_conversion_map, existing, existing_dirs, filename, cand,
                   candidates>>

Next == Start \/ FastPath \/ Generate \/ Check

Spec == Init /\ [][Next]_vars

----------------------------------------------------------------------------
(* new_candidate_filename applied to the counters 0, 1, 2, ... of one file  *)
(* name, with the lookup structures as new_filename_impl prepares them.     *)

InitCandidate ==
    /\ path \in {p \in Paths : p.file_name.some}
    /\ config \in Configs
    /\ dst_dir_arg = None
    /\ dst_dir = None
    /\ existing_dirs = {"d0"}
    /\ existing = {}
    /\ to_same_dir = FALSE
    /\ ignored_tags = NormalizeTags(config.ignored_tags)
    /\ tag_conversion_map = NormalizeMap(config.conversions)
    /\ pc = "apply"
    /\ filename = path.file_name.val
    /\ n_retries = 0
    /\ cand = NoCand
    /\ candidates = <<>>
    /\ probes = <<>>
    /\ result = NoResult
    /\ split_slug = <<>>
    /\ split_out = NoSplit

ApplyCandidate ==
    /\ pc = "apply"
    /\ UNCHANGED <<split_slug, split_out>>
    /\ n_retries <= MaxCounter
    /\ cand' = NewCandidateFilename(filename, ignored_tags, tag_conversion_map,
                                    n_retries)
    /\ candidates' = Append(candidates, cand'.name)
    /\ n_retries' = n_retries + 1
    /\ UNCHANGED <<path, dst_dir_arg, dst_dir, to_same_dir, config, ignored_tags,
                   tag_conversion_map, existing, existing_dirs, pc, filename,
                   probes, result>>

NextCandidate == ApplyCandidate

SpecCandidate == InitCandidate /\ [][NextCandidate]_vars

----------------------------------------------------------------------------
(* split_into_components applied to every short slug over a delimiter, an   *)
(* ASCII letter and a 3-byte character, with an empty conversion map.       *)

SlugChars == {".", "a", "U4E00"}

Slugs == UNION {[1..k -> SlugChars] : k \in 1..MaxSlugLen}

InitSplit ==
    /\ split_slug \in Slugs
    /\ split_out = NoSplit
    /\ path = [text |-> <<>>, dir |-> "d0", file_name |-> None]
    /\ config = [ignored_tags |-> {}, conversions |-> {}]
    /\ dst_dir_arg = None
    /\ dst_dir = None
    /\ existing_dirs = {"d0"}
    /\ existing = {}
    /\ to_same_dir = FALSE
    /\ ignored_tags = {}
    /\ tag_conversion_map = <<>>
    /\ pc = "split"
    /\ filename = <<>>
    /\ n_retries = 0
    /\ cand = NoCand
    /\ candidates = <<>>
    /\ probes = <<>>
    /\ result = NoResult

ApplySplit ==
    /\ pc = "split"
    /\ LET sp == split_into_components(split_slug, tag_conversion_map)
       IN  split_out' = [applied |-> TRUE,
                     panic |-> sp.panic,
                     first_component |-> sp.first_component,
                     components |-> sp.components]
    /\ pc' = "split_done"
    /\ UNCHANGED <<path, dst_dir_arg, dst_dir, to_same_dir, config, ignored_tags,
                   tag_conversion_map, existing, existing_dirs, filename,
                   n_retries, cand, candidates, probes, result, split_slug>>

NextSplit == ApplySplit

SpecSplit == InitSplit /\ [][NextSplit]_vars

----------------------------------------------------------------------------
(* Properties. *)

EndsWith(s, suffix) ==
    /\ Len(s) >= Len(suffix)
    /\ SubSeq(s, Len(s) - Len(suffix) + 1, Len(s)) = suffix

\* the name of the candidate for counter n of the current call
CandName(n) ==
    NewCandidateFilename(filename, ignored_tags, tag_conversion_map, n).name

\* C1: every candidate new_candidate_filename returns is at most 255 bytes
\* long; neither the asserts nor the checked subtraction of the extension
\* reserve fail.
C1_LengthBound ==
    cand.applied =>
        /\ ~cand.panic
        /\ cand.budget >= 0
        /\ ByteLen(cand.name) <= N_FILENAME_BYTES

\* a truncated candidate of exactly 255 bytes carrying a two-digit counter
C1_Witness ==
    /\ cand.applied
    /\ cand.n >= 10
    /\ cand.truncated_first
    /\ ByteLen(filename) > N_FILENAME_BYTES
    /\ ByteLen(cand.name) = N_FILENAME_BYTES

\* C2: a name of at most 255 bytes, no destination given (same directory):
\* the name is returned unchanged and the existence check is never called.
C2_SameDirUnchanged ==
    (/\ pc = "done"
     /\ path.file_name.some
     /\ ~dst_dir_arg.some
     /\ ByteLen(path.file_name.val) <= N_FILENAME_BYTES)
    => /\ result = Ok(path.file_name.val)
       /\ probes = <<>>

\* a 255-byte name the check would report as existing, returned unchanged
C2_Witness ==
    /\ pc = "done"
    /\ ~dst_dir_arg.some
    /\ path.file_name.some
    /\ ByteLen(path.file_name.val) = N_FILENAME_BYTES
    /\ path.file_name.val \in existing
    /\ result = Ok(path.file_name.val)
    /\ probes = <<>>

\* C3 as stated: with an explicit destination the returned name is exactly
\* the candidate of the least counter the check reports as not existing.
C3_Original ==
    (pc = "done" /\ result.kind = "Ok" /\ dst_dir_arg.some)
    => \E n \in 0..MaxRetries :
          /\ result.name = CandName(n)
          /\ CandName(n) \notin existing
          /\ \A m \in 0..(n - 1) : CandName(m) \in existing

\* the probe of the name itself that precedes the loop (lines 63-73)
PreProbe ==
    IF pc \notin {"start", "fast"} /\ FitsLimit(filename) /\ ~to_same_dir
    THEN <<filename>>
    ELSE <<>>

\* C3 (amended): with an explicit destination, a name of at most 255 bytes is
\* probed first and returned unchanged if reported free; otherwise the
\* candidates of the counters 0, 1, 2, ... are probed in increasing order, one
\* at a time; every probe but the last was reported as existing, and the
\* returned name is the last probe, reported as not existing.
C3_ProbeOrder ==
    (dst_dir_arg.some /\ path.file_name.some /\ pc # "start")
    => /\ \A i \in 1..Len(candidates) : candidates[i] = CandName(i - 1)
       /\ \E k \in 0..Len(candidates) :
             /\ probes = PreProbe \o SubSeq(candidates, 1, k)
             /\ k >= Len(candidates) - 1
             /\ pc = "check" => k = Len(candidates) - 1
             /\ pc = "loop" => k = Len(candidates)
       /\ \A i \in 1..(Len(probes) - 1) : probes[i] \in existing
       /\ (pc = "loop" /\ probes # <<>>) => probes[Len(probes)] \in existing
       /\ (pc = "done" /\ result.kind = "Ok")
          => /\ probes # <<>>
             /\ result.name = probes[Len(probes)]
             /\ result.name \notin existing
             /\ candidates = <<>> => result.name = filename
             /\ candidates # <<>> => /\ result.name = candidates[Len(candidates)]
                                     /\ n_retries = Len(candidates) - 1

\* the third attempt is accepted after two rejected candidates
C3_Witness ==
    /\ pc = "done"
    /\ dst_dir_arg.some
    /\ result.kind = "Ok"
    /\ Len(candidates) = 3
    /\ result.name = candidates[3]
    /\ candidates[1] \in existing
    /\ candidates[2] \in existing

\* C4: the candidates of one file name for different counters are pairwise
\* distinct strings.
C4_Distinct ==
    \A i \in 1..Len(candidates) : \A j \in 1..Len(candidates) :
        i # j => candidates[i] # candidates[j]

\* the extension the claim speaks of: the text after the last '.', when it is
\* at most 5 bytes long and the text before that '.' is not empty
TrueExt(name) ==
    LET dots == {i \in 1..Len(name) : name[i] = "."}
    IN  IF dots # {} /\ Max(dots) > 1
           /\ ByteLen(SubSeq(name, Max(dots) + 1, Len(name))) <= N_MAX_EXTENSION_BYTES
        THEN Some(SubSeq(name, Max(dots) + 1, Len(name)))
        ELSE None

\* C5: a candidate ends with ".<ext>" for counter 0 and ".<n>.<ext>" for a
\* counter n > 0 when the name has an extension; without an extension it
\* ends with ".<n>" for n > 0 and is the bare slug for n = 0.
C5_ExtensionSuffix ==
    cand.applied =>
        LET e == TrueExt(filename)
            n == cand.n
        IN  IF e.some
            THEN IF n = 0
                 THEN EndsWith(cand.name, <<".">> \o e.val)
                 ELSE EndsWith(cand.name, <<".">> \o FormatUsize(n) \o <<".">> \o e.val)
            ELSE IF n = 0
                 THEN cand.ext = <<>> /\ cand.name = cand.new_slug
                 ELSE EndsWith(cand.name, <<".">> \o FormatUsize(n))

\* the extension survives the truncation of the leading component, behind a
\* two-digit counter
C5_Witness ==
    /\ cand.applied
    /\ TrueExt(filename).some
    /\ cand.n >= 10
    /\ cand.truncated_first
    /\ EndsWith(cand.name, <<".">> \o FormatUsize(cand.n) \o <<".", "t", "x", "t">>)

\* the normalized tags of the slug components of a name, the leading
\* component excluded
SlugTags(name) ==
    LET sp == split_into_components(CapExtension(SplitDot(name)).slug, <<>>)
    IN  {normalize_str(sp.components[k].tag) : k \in 1..Len(sp.components)}

\* C6 as stated: the name new_filename_impl returns has no tag component
\* whose normalized text is in the ignored-tag set.
C6_Original ==
    (pc = "done" /\ result.kind = "Ok")
    => SlugTags(result.name) \cap ignored_tags = {}

\* C6 (amended): in every candidate, a component whose converted tag,
\* normalized, is in the ignored-tag set contributes the empty string.
C6_IgnoredDropped ==
    cand.applied =>
        \A k \in 1..Len(cand.remaining_components) :
            normalize_str(cand.remaining_components[k].tag) \in ignored_tags
            => cand.converted_components[k] = <<>>

\* an ignored component is dropped while another component is emitted
C6_Witness ==
    /\ cand.applied
    /\ \E k \in 1..Len(cand.remaining_components) :
          /\ normalize_str(cand.remaining_components[k].tag) \in ignored_tags
          /\ cand.converted_components[k] = <<>>
    /\ \E k \in 1..Len(cand.remaining_components) :
          cand.converted_components[k] # <<>>

\* selection order: ascending byte cost, ties by original position
SelectedBefore(c, i, j) ==
    \/ n_bytes(c[i]) < n_bytes(c[j])
    \/ n_bytes(c[i]) = n_bytes(c[j]) /\ i < j

\* C7: of the remaining components whose converted tags are equal after
\* normalization at most one is emitted, and it is the first of them in
\* selection order; the others contribute the empty string.
C7_DuplicateCollapse ==
    cand.applied =>
        LET c == cand.remaining_components
        IN  \A i \in 1..Len(c) : \A j \in 1..Len(c) :
                (/\ i # j
                 /\ normalize_str(c[i].tag) = normalize_str(c[j].tag)
                 /\ cand.converted_components[i] # <<>>)
                => /\ cand.converted_components[j] = <<>>
                   /\ SelectedBefore(c, i, j)

\* two components with different texts and equal normalized tags: the later
\* one in the name, which is the shorter, is the one emitted
C7_Witness ==
    /\ cand.applied
    /\ LET c == cand.remaining_components
       IN  \E i \in 1..Len(c) : \E j \in 1..Len(c) :
              /\ j < i
              /\ normalize_str(c[i].tag) = normalize_str(c[j].tag)
              /\ cand.converted_components[i] # <<>>
              /\ cand.converted_components[j] = <<>>

\* C8 as stated: a name of at most 255 bytes, empty ignored-tag set, empty
\* conversion map, counter 0: the candidate is the name.
C8_Original ==
    (/\ cand.applied
     /\ cand.n = 0
     /\ ByteLen(filename) <= N_FILENAME_BYTES
     /\ ignored_tags = {}
     /\ DOMAIN tag_conversion_map = {})
    => cand.name = filename

\* no two remaining components have tags that are equal after normalization
DistinctTags(c) ==
    \A i \in 1..Len(c) : \A j \in 1..Len(c) :
        i # j => normalize_str(c[i].tag) # normalize_str(c[j].tag)

\* C8 (amended): the same, for a name whose remaining components have
\* pairwise different normalized tags.
C8_ShortUnchanged ==
    (/\ cand.applied
     /\ cand.n = 0
     /\ ByteLen(filename) <= N_FILENAME_BYTES
     /\ ignored_tags = {}
     /\ DOMAIN tag_conversion_map = {}
     /\ DistinctTags(split_into_components(CapExtension(SplitDot(filename)).slug,
                                           <<>>).components))
    => cand.name = filename

\* a name with an extension and three components, one of them empty,
\* returned unchanged
C8_Witness ==
    /\ cand.applied
    /\ cand.n = 0
    /\ ignored_tags = {}
    /\ DOMAIN tag_conversion_map = {}
    /\ cand.true_ext.some
    /\ Len(cand.remaining_components) = 3
    /\ DistinctTags(cand.remaining_components)
    /\ ByteLen(filename) <= N_FILENAME_BYTES
    /\ cand.name = filename

\* C9: no step of new_filename_impl changes the filesystem.
C9_FsUnchanged == [][existing_dirs' = existing_dirs]_vars

\* C10: a path without a final segment: the error FilenameNotFound carrying
\* the path, no existence check, no retry loop, no candidate.
C10_FilenameNotFound ==
    (~path.file_name.some /\ pc # "start")
    => /\ pc = "done"
       /\ result = Err("FilenameNotFound", path.text)
       /\ probes = <<>>
       /\ candidates = <<>>
       /\ cand = NoCand
       /\ n_retries = 0

\* the path "." ends in the error
C10_Witness ==
    /\ pc = "done"
    /\ path.text = <<".">>
    /\ ~path.file_name.some
    /\ result.kind = "Err"
    /\ result.error = "FilenameNotFound"

\* C11: when the leading component is longer than the slug budget, the slug
\* of the candidate is the longest prefix of whole characters of the leading
\* component that fits the budget, and no other component contributes.
C11_LeadingTruncation ==
    (cand.applied /\ ByteLen(cand.first_component) > cand.budget)
    => LET f == cand.first_component
           s == cand.new_slug
       IN  /\ Len(s) < Len(f)
           /\ s = SubSeq(f, 1, Len(s))
           /\ ByteLen(s) <= cand.budget
           /\ ByteLen(SubSeq(f, 1, Len(s) + 1)) > cand.budget
           /\ \A k \in 1..Len(cand.remaining_components) :
                 cand.converted_components[k] = <<>>
           /\ cand.name = s \o cand.ext

\* a leading component cut before a 3-byte character that does not fit the
\* 2 bytes left, with a component that is dropped
C11_Witness ==
    /\ cand.applied
    /\ ByteLen(cand.first_component) > cand.budget
    /\ Len(cand.remaining_components) > 0
    /\ ByteLen(cand.new_slug) = cand.budget - 2
    /\ cand.first_component[Len(cand.new_slug) + 1] = "U4E00"

\* the text a component contributes when emitted in full
FullText(c) == <<c.delimiter>> \o c.tag

\* the bytes left after the leading component and the first p components of
\* the selection order o
RECURSIVE LeftAfter(_, _)
LeftAfter(o, p) ==
    IF p = 0
    THEN cand.budget - ByteLen(cand.first_component)
    ELSE LeftAfter(o, p - 1) - ByteLen(cand.converted_components[o[p]])

\* C12: when the leading component fits, the remaining components are
\* considered in ascending byte cost, ties in original position order; a
\* component is emitted in full only if every component before it in that
\* order that is neither ignored nor a duplicate was emitted in full; at most
\* one component is emitted partially; after a partial emission, or once the
\* budget is 0, every later component of that order is empty.
C12_SelectionOrder ==
    (cand.applied /\ ~(ByteLen(cand.first_component) > cand.budget))
    => LET c == cand.remaining_components
           o == cand.order
           out == cand.converted_components
           IsFull(i) == out[i] = FullText(c[i])
           IsPartial(i) == out[i] # <<>> /\ out[i] # FullText(c[i])
           IsSkipped(p) ==
               \/ normalize_str(c[o[p]].tag) \in ignored_tags
               \/ \E r \in 1..(p - 1) :
                     /\ IsFull(o[r])
                     /\ normalize_str(c[o[r]].tag) = normalize_str(c[o[p]].tag)
       IN  /\ Len(o) = Len(c)
           /\ {o[p] : p \in 1..Len(o)} = 1..Len(c)
           /\ \A p \in 1..Len(o) : \A q \in 1..Len(o) :
                 p < q => SelectedBefore(c, o[p], o[q])
           /\ \A q \in 1..Len(o) :
                 IsFull(o[q]) => \A p \in 1..(q - 1) : IsSkipped(p) \/ IsFull(o[p])
           /\ Cardinality({i \in 1..Len(c) : IsPartial(i)}) <= 1
           /\ \A p \in 1..Len(o) :
                 IsPartial(o[p]) => \A q \in (p + 1)..Len(o) : out[o[q]] = <<>>
           /\ \A p \in 0..Len(o) :
                 LeftAfter(o, p) = 0 => \A q \in (p + 1)..Len(o) : out[o[q]] = <<>>
           /\ \A p \in 0..Len(o) : LeftAfter(o, p) >= 0

\* the shortest component, second in the name, is emitted in full, the next
\* of the order partially, and the longest, first in the name, not at all
C12_Witness ==
    /\ cand.applied
    /\ ~cand.truncated_first
    /\ Len(cand.remaining_components) = 3
    /\ cand.order = <<2, 3, 1>>
    /\ cand.converted_components[2] = FullText(cand.remaining_components[2])
    /\ cand.converted_components[3] # <<>>
    /\ cand.converted_components[3] # FullText(cand.remaining_components[3])
    /\ cand.converted_components[1] = <<>>
    /\ normalize_str(cand.remaining_components[1].tag) \notin ignored_tags

\* the positions of the delimiters of a slug that start a component
Boundaries(slug) == {i \in 2..Len(slug) : slug[i] \in DELIMITERS}

\* the k-th smallest element of a set of positions
RECURSIVE KthBoundary(_, _)
KthBoundary(B, k) ==
    LET m == CHOOSE i \in B : \A j \in B : i <= j
    IN  IF k = 1 THEN m ELSE KthBoundary(B \ {m}, k - 1)

\* C13: for a non-empty slug and an empty conversion map the leading
\* component is the text before the first delimiter at an offset > 0, and
\* there is one component per such delimiter, in order, whose tag is the text
\* between it and the next one (or the end); no tag contains the delimiter,
\* and the leading component followed by delimiter + tag of every component
\* is the slug.
C13_SplitShape ==
    split_out.applied =>
        LET B == Boundaries(split_slug)
            n == Cardinality(B)
            At(k) == IF k = n + 1 THEN Len(split_slug) + 1 ELSE KthBoundary(B, k)
            c == split_out.components
        IN  /\ ~split_out.panic
            /\ split_out.first_component = SubSeq(split_slug, 1, At(1) - 1)
            /\ Len(c) = n
            /\ \A k \in 1..n :
                  /\ c[k].delimiter = split_slug[At(k)]
                  /\ c[k].tag = SubSeq(split_slug, At(k) + 1, At(k + 1) - 1)
                  /\ \A i \in 1..Len(c[k].tag) : c[k].tag[i] \notin DELIMITERS
            /\ split_out.first_component
                 \o Concat([k \in 1..n |-> FullText(c[k])], n) = split_slug

\* a slug that starts with the delimiter and has consecutive delimiters: the
\* leading component keeps its dot, and one of the two components is empty
C13_Witness ==
    /\ split_out.applied
    /\ split_slug = <<".", "U4E00", ".", ".", "a">>
    /\ split_out.first_component = <<".", "U4E00">>
    /\ Len(split_out.components) = 2
    /\ split_out.components[1].tag = <<>>
    /\ split_out.components[2].tag = <<"a">>

\* the number of candidates of the loop that the existence check rejected
Rejected == Cardinality({i \in 1..Len(candidates) : candidates[i] \in existing})

\* C14: with finitely many existing names, a call that enters the retry loop
\* ends by returning an accepted candidate, and the retry counter then equals
\* the number of candidates rejected in the loop.  Stated on the final state:
\* a call that has entered the loop and has ended has ended that way.
C14_LoopEndsAccepted ==
    (pc = "done" /\ candidates # <<>>)
    => (result.kind = "Ok" /\ n_retries = Rejected)

\* what the loop does guarantee at its end: an accepted candidate and that
\* value of the counter, or the error of fs::create_dir_all
LoopEndsAcceptedOrIoError ==
    (pc = "done" /\ candidates # <<>>)
    => \/ result.kind = "Ok" /\ n_retries = Rejected
       \/ result.kind = "Err" /\ result.error = "Io"

\* a rejected candidate is always followed by the next iteration: the loop
\* makes a step in every state before its end
LoopNeverStuck ==
    /\ (pc = "check" /\ check_file_existence(cand.name)) => n_retries < MaxRetries
    /\ pc \in {"start", "fast", "loop", "check", "done"}
    /\ n_retries \in 0..MaxRetries
    /\ Len(candidates) \in {n_retries, n_retries + 1}

====
